---- MODULE Spec2Model ----
(***************************************************************************)
(* Deployment orchestration of betingrich4/my-heroku.                      *)
(*                                                                         *)
(* routes/deployments.js (router.post('/'), router.post('/:id/restart'),   *)
(* router.delete('/:id')) and utils/docker.js (buildAndStartContainer,     *)
(* restartContainer, stopContainer), both found in src/unnamed/part_000.   *)
(*                                                                         *)
(* Every handler is an async function.  One action of the model is one     *)
(* resumption of a handler: the synchronous code that runs after the       *)
(* previous await, followed by the awaited call (a store operation, the    *)
(* git clone, or one call of the container runtime).  The container        *)
(* runtime, the store and the file system are shared by all handlers.      *)
(***************************************************************************)
EXTENDS Integers, Sequences, FiniteSets, TLC

\* ------------------------------------------------------------------ bounds
MaxDeps == 1        \* deployments ever created (Deployment.create calls)
MaxTasks == 2       \* request handlers that can be in flight together
RefLen == 14        \* length of a container id handed out by the runtime

Ids == 1..MaxDeps
Tasks == 1..MaxTasks
Users == {"u1", "u2"}

\* ------------------------------------------------------- program constants
PrefixLen == 12                       \* container.id.slice(0, 12)
Domain == "deploybot.app"             \* process.env.DEPLOYMENT_DOMAIN || ...

VARIABLES
  store,        \* Deployment collection: id -> stored document
  nextId,       \* next _id Deployment.create hands out
  containers,   \* containers known to the Docker daemon
  images,       \* image tags known to the Docker daemon
  workspace,    \* deployment ids whose REPOS_DIR/<id> directory exists
  task,         \* the request handlers: position, locals, what they did
  terminated    \* ids for which a DELETE request has already returned

vars == <<store, nextId, containers, images, workspace, task, terminated>>

\* ------------------------------------------------------------- naming
\* name: `deploybot-${deployment._id}-${user.id}`
ContainerName(d, u) == <<"deploybot", d, u>>

\* t: `deploybot-${deployment._id}` , looked up as `deploybot-${id}:latest`
ImageTag(d) == <<"deploybot", d, "latest">>

\* the id the daemon gives the container it creates for deployment d
ContainerRef(d) == [i \in 1..RefLen |-> (i + d) % 10]

NoRef == << >>

\* (variant: the whole container id instead of its 12-character prefix)
UrlOf_WholeId(ref) == <<"http://", ref, ".", "deploybot.app">>

\* `http://${container.id.slice(0, 12)}.${DEPLOYMENT_DOMAIN}`
Slice(s, n) == [i \in 1..(IF Len(s) < n THEN Len(s) ELSE n) |-> s[i]]
UrlOf(ref) == <<"http://", Slice(ref, PrefixLen), ".", Domain>>
NoUrl == << >>

\* ------------------------------------------------------------- documents
NewDoc(u, repoUrl) ==
  [user |-> u, repoUrl |-> repoUrl, status |-> "initializing", logs |-> "",
   containerId |-> NoRef, url |-> NoUrl,
   envVars |-> "env0", buildCommand |-> "npm install",
   startCommand |-> "npm start", name |-> "name0"]

NoDoc ==
  [user |-> "", repoUrl |-> << >>, status |-> "", logs |-> "",
   containerId |-> NoRef, url |-> NoUrl,
   envVars |-> "", buildCommand |-> "", startCommand |-> "", name |-> ""]

\* request bodies of PUT /api/deployments/:id ("" is a field that is absent)
NoBody ==
  [envVars |-> "", buildCommand |-> "", startCommand |-> "", name |-> "",
   status |-> ""]
UpdateBodies ==
  { NoBody,
    [NoBody EXCEPT !.envVars = "env1"],
    [NoBody EXCEPT !.buildCommand = "yarn", !.startCommand = "yarn start",
                   !.name = "name1", !.status = "stopped"] }

\* repository URLs of POST /api/deployments, as sequences of characters in
\* which "G" stands for the substring github.com
RepoUrls ==
  { <<"h", "G", "/", "a", "/", "b">>,      \* https://github.com/a/b
    <<"n", "o", "t">>,                     \* not-a-url
    <<"G", "/", "a">>,                     \* github.com/a
    <<"G", "/", "a", "/">>,                \* github.com/a/
    <<"G", "/", "/", "b">> }               \* github.com//b

\* (variant: the pattern /github\.com\/.+/, without the repository part)
MatchesRepo_OwnerOnly(url) ==
  \E i \in 1..Len(url) :
    /\ url[i] = "G"
    /\ i + 2 <= Len(url) /\ url[i + 1] = "/"

\* repoUrl.match(/github\.com\/.+\/.+/)
MatchesRepo(url) ==
  \E i \in 1..Len(url) :
    /\ url[i] = "G"
    /\ i + 1 <= Len(url) /\ url[i + 1] = "/"
    /\ \E j \in (i + 3)..(Len(url) - 1) : url[j] = "/"

\* an entry of what a handler did: a save, an emitted event, an external call
\* (res: "ok", "fault" for a call that failed on its own, or the HTTP status
\* with which the daemon refused it)
Entry(op, what, chan, dep, logs, res) ==
  [op |-> op, what |-> what, chan |-> chan, dep |-> dep, logs |-> logs, res |-> res]
SaveE(status) == Entry("save", status, "", 0, "", "ok")
EmitE(u, d, status, logs) == Entry("emit", status, u, d, logs, "ok")
RemovedE(u, d) == Entry("removed", "", u, d, "", "ok")
CallE(name, res) == Entry("call", name, "", 0, "", res)
\* a save that the store rejected
SaveFailE(status) == Entry("savefail", status, "", 0, "", "fault")

IdleTask ==
  [kind |-> "none", pc |-> "idle", user |-> "", dep |-> 0, doc |-> NoDoc,
   err |-> "", cref |-> NoRef, outcome |-> "none", stop |-> "none",
   second |-> FALSE, body |-> NoBody, repoUrl |-> << >>, trace |-> << >>,
   dirty |-> {}]

\* ------------------------------------------------------------- the store
\* deployment.save(): the paths assigned since the document was loaded or
\* last saved are written to its record (a document that was removed
\* meanwhile is not created again)
SaveDoc(st, d, doc, paths) ==
  IF d \in DOMAIN st
    THEN [st EXCEPT ![d] =
            [f \in DOMAIN st[d] |-> IF f \in paths THEN doc[f] ELSE st[d][f]]]
    ELSE st

\* Deployment.create(...)
CreateDoc(st, d, doc) ==
  [x \in DOMAIN st \cup {d} |-> IF x = d THEN doc ELSE st[x]]

\* deployment.remove()
RemoveDoc(st, d) == [x \in DOMAIN st \ {d} |-> st[x]]

\* (variant: the query matches on _id alone)
Found_AnyUser(st, d, u) == d \in DOMAIN st
\* Deployment.findOne({ _id, user })
Found(st, d, u) == d \in DOMAIN st /\ st[d].user = u

\* ------------------------------------------------------------- the runtime
ContainersNamed(cs, name) == {c \in cs : c.name = name}
ContainersWithId(cs, ref) == {c \in cs : c.id = ref}

\* container.stop(): 404 when absent, 304 (an error for dockerode) when the
\* container is not running
StopRes(cs, ref, ok) ==
  IF ~ok THEN "fault"
  ELSE IF ContainersWithId(cs, ref) = {} THEN "404"
  ELSE IF \E c \in ContainersWithId(cs, ref) : ~c.running THEN "304"
  ELSE "ok"
DoStop(cs, ref) ==
  {IF c.id = ref THEN [c EXCEPT !.running = FALSE] ELSE c : c \in cs}

\* container.remove(): 404 when absent, 409 when still running
RemoveRes(cs, ref, ok) ==
  IF ~ok THEN "fault"
  ELSE IF ContainersWithId(cs, ref) = {} THEN "404"
  ELSE IF \E c \in ContainersWithId(cs, ref) : c.running THEN "409"
  ELSE "ok"
DoRemove(cs, ref) == {c \in cs : c.id # ref}

\* container.start(): 404 when absent, 304 when already started
StartRes(cs, ref, ok) ==
  IF ~ok THEN "fault"
  ELSE IF ContainersWithId(cs, ref) = {} THEN "404"
  ELSE IF \E c \in ContainersWithId(cs, ref) : c.running THEN "304"
  ELSE "ok"

\* container.restart(): 404 when absent
RestartRes(cs, ref, ok) ==
  IF ~ok THEN "fault"
  ELSE IF ContainersWithId(cs, ref) = {} THEN "404"
  ELSE "ok"
DoRun(cs, ref) ==
  {IF c.id = ref THEN [c EXCEPT !.running = TRUE] ELSE c : c \in cs}

\* docker.createContainer: 404 on a missing image, 409 on a name in use
CreateRes(cs, ims, d, u, ok) ==
  IF ~ok THEN "fault"
  ELSE IF ImageTag(d) \notin ims THEN "404"
  ELSE IF ContainersNamed(cs, ContainerName(d, u)) # {} THEN "409"
  ELSE "ok"
DoCreate(cs, d, u) ==
  cs \cup {[id |-> ContainerRef(d), name |-> ContainerName(d, u),
            image |-> ImageTag(d), running |-> FALSE]}

\* docker.getImage(id).remove(): 404 when absent, 409 while a container uses it
RemoveImageRes(cs, ims, tag, ok) ==
  IF ~ok THEN "fault"
  ELSE IF tag \notin ims THEN "404"
  ELSE IF \E c \in cs : c.image = tag THEN "409"
  ELSE "ok"

\* a call that has no precondition in the model: it works or it fails
PlainRes(ok) == IF ok THEN "ok" ELSE "fault"

\* ------------------------------------------------------------- Init
Init ==
  /\ store = << >>
  /\ nextId = 1
  /\ containers = {}
  /\ images = {}
  /\ workspace = {}
  /\ task = [t \in Tasks |-> IdleTask]
  /\ terminated = {}

Log(t, e) == Append(task[t].trace, e)

\* a new request is served by the first handler slot that is free (handlers
\* have no identity of their own)
Free(t) ==
  /\ task[t].pc = "idle"
  /\ \A o \in Tasks : o < t => task[o].pc # "idle"

\* ------------------------------------------------ POST /api/deployments
\* lines 12-30: validation, then await Deployment.create
PostCreate(t, u, repoUrl) ==
  /\ Free(t)
  /\ IF ~MatchesRepo(repoUrl)
       THEN /\ task' = [task EXCEPT ![t] =
                 [IdleTask EXCEPT !.kind = "start", !.pc = "done", !.user = u,
                                  !.repoUrl = repoUrl,
                                  !.err = "Invalid GitHub repository URL",
                                  !.outcome = "thrown"]]
            /\ UNCHANGED <<store, nextId>>
       ELSE /\ nextId <= MaxDeps
            /\ store' = CreateDoc(store, nextId, NewDoc(u, repoUrl))
            /\ nextId' = nextId + 1
            /\ task' = [task EXCEPT ![t] =
                 [IdleTask EXCEPT !.kind = "start", !.pc = "save_cloning",
                                  !.user = u, !.dep = nextId,
                                  !.repoUrl = repoUrl,
                                  !.doc = NewDoc(u, repoUrl),
                                  !.trace = <<SaveE("initializing")>>]]
  /\ UNCHANGED <<containers, images, workspace, terminated>>

\* lines 33-36 and 246-248: emit 'initializing', then status = 'cloning', save
StartSaveCloning(t) ==
  /\ task[t].pc = "save_cloning"
  /\ LET doc == [task[t].doc EXCEPT !.status = "cloning",
                                    !.logs = "Cloning repository..."]
     IN /\ store' = SaveDoc(store, task[t].dep, doc, {"status", "logs"})
        /\ task' = [task EXCEPT ![t].doc = doc, ![t].pc = "clone",
             ![t].trace = task[t].trace \o
               <<EmitE(task[t].user, task[t].dep, "initializing", ""),
                 SaveE("cloning")>>]
  /\ UNCHANGED <<nextId, containers, images, workspace, terminated>>

\* (variant: the clone's error is swallowed and the pipeline goes on)
StartClone_IgnoresFailure(t, ok) ==
  /\ task[t].pc = "clone"
  /\ workspace' = IF ok THEN workspace \cup {task[t].dep} ELSE workspace
  /\ task' = [task EXCEPT ![t].pc = "save_building",
                          ![t].trace = Log(t, CallE("clone", PlainRes(ok)))]
  /\ UNCHANGED <<store, nextId, containers, images, terminated>>

\* lines 250-253: await simpleGit().clone(...)
StartClone(t, ok) ==
  /\ task[t].pc = "clone"
  /\ IF ok
       THEN /\ workspace' = workspace \cup {task[t].dep}
            /\ task' = [task EXCEPT ![t].pc = "save_building",
                                    ![t].trace = Log(t, CallE("clone", "ok"))]
       ELSE /\ workspace' = workspace
            /\ task' = [task EXCEPT ![t].pc = "cleanup_list",
                                    ![t].err = "clone failed",
                                    ![t].trace = Log(t, CallE("clone", "fault"))]
  /\ UNCHANGED <<store, nextId, containers, images, terminated>>

\* lines 268-270: status = 'building', save
StartSaveBuilding(t) ==
  /\ task[t].pc = "save_building"
  /\ LET doc == [task[t].doc EXCEPT !.status = "building",
                                    !.logs = "Building Docker image..."]
     IN /\ store' = SaveDoc(store, task[t].dep, doc, {"status", "logs"})
        /\ task' = [task EXCEPT ![t].doc = doc, ![t].pc = "build",
                                ![t].trace = Log(t, SaveE("building"))]
  /\ UNCHANGED <<nextId, containers, images, workspace, terminated>>

\* (variant: the image is tagged although the build ends in an error)
StartBuild_LeavesImage(t, ok) ==
  /\ task[t].pc = "build"
  /\ images' = images \cup {ImageTag(task[t].dep)}
  /\ IF ok
       THEN task' = [task EXCEPT ![t].pc = "save_starting",
                                ![t].trace = Log(t, CallE("buildImage", "ok"))]
       ELSE task' = [task EXCEPT ![t].pc = "cleanup_list",
                                ![t].err = "build failed",
                                ![t].trace = Log(t, CallE("buildImage", "fault"))]
  /\ UNCHANGED <<store, nextId, containers, workspace, terminated>>

\* lines 272-285: docker.buildImage and followProgress
StartBuild(t, ok) ==
  /\ task[t].pc = "build"
  /\ IF ok
       THEN /\ images' = images \cup {ImageTag(task[t].dep)}
            /\ task' = [task EXCEPT ![t].pc = "save_starting",
                                    ![t].trace = Log(t, CallE("buildImage", "ok"))]
       ELSE /\ images' = images
            /\ task' = [task EXCEPT ![t].pc = "cleanup_list",
                                    ![t].err = "build failed",
                                    ![t].trace = Log(t, CallE("buildImage", "fault"))]
  /\ UNCHANGED <<store, nextId, containers, workspace, terminated>>

\* (variant: 'starting' is assigned but never saved)
StartSaveStarting_NotSaved(t) ==
  /\ task[t].pc = "save_starting"
  /\ task' = [task EXCEPT ![t].doc.status = "starting",
                          ![t].doc.logs = "Starting container...",
                          ![t].pc = "create"]
  /\ UNCHANGED <<store, nextId, containers, images, workspace, terminated>>

\* lines 288-290: status = 'starting', save
StartSaveStarting(t) ==
  /\ task[t].pc = "save_starting"
  /\ LET doc == [task[t].doc EXCEPT !.status = "starting",
                                    !.logs = "Starting container..."]
     IN /\ store' = SaveDoc(store, task[t].dep, doc, {"status", "logs"})
        /\ task' = [task EXCEPT ![t].doc = doc, ![t].pc = "create",
                                ![t].trace = Log(t, SaveE("starting"))]
  /\ UNCHANGED <<nextId, containers, images, workspace, terminated>>

\* lines 292-301: docker.createContainer
StartCreate(t, ok) ==
  /\ task[t].pc = "create"
  /\ LET res == CreateRes(containers, images, task[t].dep, task[t].user, ok)
         good == res = "ok"
     IN IF good
          THEN /\ containers' = DoCreate(containers, task[t].dep, task[t].user)
               /\ task' = [task EXCEPT ![t].pc = "start",
                                       ![t].cref = ContainerRef(task[t].dep),
                                       ![t].trace = Log(t, CallE("createContainer", res))]
          ELSE /\ containers' = containers
               /\ task' = [task EXCEPT ![t].pc = "cleanup_list",
                                       ![t].err = "create failed",
                                       ![t].trace = Log(t, CallE("createContainer", res))]
  /\ UNCHANGED <<store, nextId, images, workspace, terminated>>

\* line 303: container.start()
StartStart(t, ok) ==
  /\ task[t].pc = "start"
  /\ LET res == StartRes(containers, task[t].cref, ok)
         good == res = "ok"
     IN IF good
          THEN /\ containers' = DoRun(containers, task[t].cref)
               /\ task' = [task EXCEPT ![t].pc = "save_running",
                                       ![t].trace = Log(t, CallE("start", res))]
          ELSE /\ containers' = containers
               /\ task' = [task EXCEPT ![t].pc = "cleanup_list",
                                       ![t].err = "start failed",
                                       ![t].trace = Log(t, CallE("start", res))]
  /\ UNCHANGED <<store, nextId, images, workspace, terminated>>

\* (variant: 'running' is saved without the container id and the url)
StartSaveRunning_StatusOnly(t) ==
  /\ task[t].pc = "save_running"
  /\ LET doc == [task[t].doc EXCEPT !.status = "running",
                                    !.logs = "Container running successfully"]
     IN /\ store' = SaveDoc(store, task[t].dep, doc, {"status", "logs"})
        /\ task' = [task EXCEPT ![t].doc = doc, ![t].pc = "post_return",
                                ![t].trace = Log(t, SaveE("running"))]
  /\ UNCHANGED <<nextId, containers, images, workspace, terminated>>

\* lines 306-310: containerId, status = 'running', logs, url, save
StartSaveRunning(t) ==
  /\ task[t].pc = "save_running"
  /\ LET doc == [task[t].doc EXCEPT !.containerId = task[t].cref,
                                    !.status = "running",
                                    !.logs = "Container running successfully",
                                    !.url = UrlOf(task[t].cref)]
     IN /\ store' = SaveDoc(store, task[t].dep, doc,
                            {"containerId", "status", "logs", "url"})
        /\ task' = [task EXCEPT ![t].doc = doc, ![t].pc = "post_return",
                                ![t].trace = Log(t, SaveE("running"))]
  /\ UNCHANGED <<nextId, containers, images, workspace, terminated>>

\* lines 60-63: res.status(201).json
PostReturn(t) ==
  /\ task[t].pc = "post_return"
  /\ task' = [task EXCEPT ![t].pc = "done", ![t].outcome = "ok"]
  /\ UNCHANGED <<store, nextId, containers, images, workspace, terminated>>

\* --------------------------------- buildAndStartContainer: catch (clean up)
\* line 316-317: docker.listContainers({ all: true }) and find by name
CleanupList(t, ok) ==
  /\ task[t].pc = "cleanup_list"
  /\ LET found == ContainersNamed(containers, ContainerName(task[t].dep, task[t].user))
     IN IF ~ok
          THEN task' = [task EXCEPT ![t].pc = "save_failed",
                                   ![t].trace = Log(t, CallE("listContainers", "fault"))]
          ELSE IF found # {}
            THEN task' = [task EXCEPT ![t].pc = "cleanup_stop",
                                     ![t].cref = (CHOOSE c \in found : TRUE).id,
                                     ![t].trace = Log(t, CallE("listContainers", "ok"))]
            ELSE task' = [task EXCEPT ![t].pc = "cleanup_images",
                                     ![t].trace = Log(t, CallE("listContainers", "ok"))]
  /\ UNCHANGED <<store, nextId, containers, images, workspace, terminated>>

\* (variant: no inner try/catch, the clean-up's error replaces the stage's)
CleanupStop_Raises(t, ok) ==
  /\ task[t].pc = "cleanup_stop"
  /\ LET res == StopRes(containers, task[t].cref, ok)
     IN IF res = "ok"
          THEN /\ containers' = DoStop(containers, task[t].cref)
               /\ task' = [task EXCEPT ![t].pc = "cleanup_remove",
                                       ![t].trace = Log(t, CallE("stop", res))]
          ELSE /\ containers' = containers
               /\ task' = [task EXCEPT ![t].pc = "save_failed",
                                       ![t].err = "stop failed",
                                       ![t].trace = Log(t, CallE("stop", res))]
  /\ UNCHANGED <<store, nextId, images, workspace, terminated>>

\* line 321: container.stop()
CleanupStop(t, ok) ==
  /\ task[t].pc = "cleanup_stop"
  /\ LET res == StopRes(containers, task[t].cref, ok)
         good == res = "ok"
     IN IF good
          THEN /\ containers' = DoStop(containers, task[t].cref)
               /\ task' = [task EXCEPT ![t].pc = "cleanup_remove",
                                       ![t].trace = Log(t, CallE("stop", res))]
          ELSE /\ containers' = containers
               /\ task' = [task EXCEPT ![t].pc = "save_failed",
                                       ![t].trace = Log(t, CallE("stop", res))]
  /\ UNCHANGED <<store, nextId, images, workspace, terminated>>

\* line 322: container.remove()
CleanupRemove(t, ok) ==
  /\ task[t].pc = "cleanup_remove"
  /\ LET res == RemoveRes(containers, task[t].cref, ok)
         good == res = "ok"
     IN IF good
          THEN /\ containers' = DoRemove(containers, task[t].cref)
               /\ task' = [task EXCEPT ![t].pc = "cleanup_images",
                                       ![t].trace = Log(t, CallE("remove", res))]
          ELSE /\ containers' = containers
               /\ task' = [task EXCEPT ![t].pc = "save_failed",
                                       ![t].trace = Log(t, CallE("remove", res))]
  /\ UNCHANGED <<store, nextId, images, workspace, terminated>>

\* lines 325-326: docker.listImages() and find by tag
CleanupListImages(t, ok) ==
  /\ task[t].pc = "cleanup_images"
  /\ IF ~ok
       THEN task' = [task EXCEPT ![t].pc = "save_failed",
                                ![t].trace = Log(t, CallE("listImages", "fault"))]
       ELSE IF ImageTag(task[t].dep) \in images
         THEN task' = [task EXCEPT ![t].pc = "cleanup_rmi",
                                  ![t].trace = Log(t, CallE("listImages", "ok"))]
         ELSE task' = [task EXCEPT ![t].pc = "save_failed",
                                  ![t].trace = Log(t, CallE("listImages", "ok"))]
  /\ UNCHANGED <<store, nextId, containers, images, workspace, terminated>>

\* line 329: docker.getImage(imageInfo.Id).remove()
CleanupRemoveImage(t, ok) ==
  /\ task[t].pc = "cleanup_rmi"
  /\ LET res == RemoveImageRes(containers, images, ImageTag(task[t].dep), ok)
         good == res = "ok"
     IN /\ images' = IF good THEN images \ {ImageTag(task[t].dep)} ELSE images
        /\ task' = [task EXCEPT ![t].pc = "save_failed",
                                ![t].trace = Log(t, CallE("removeImage", res))]
  /\ UNCHANGED <<store, nextId, containers, workspace, terminated>>

\* (variant: the route's catch saves the status but not the message)
PostSaveFailed_NoLogs(t) ==
  /\ task[t].pc = "save_failed"
  /\ LET doc == [task[t].doc EXCEPT !.status = "failed"]
     IN /\ store' = SaveDoc(store, task[t].dep, doc, {"status"} \cup task[t].dirty)
        /\ task' = [task EXCEPT ![t].doc = doc, ![t].pc = "post_fail_return",
                                ![t].trace = Log(t, SaveE("failed"))]
  /\ UNCHANGED <<nextId, containers, images, workspace, terminated>>

\* lines 335 and 41-45: throw err; the route's catch sets 'failed' and saves
\* (with the paths that an earlier, rejected save left modified)
PostSaveFailed(t) ==
  /\ task[t].pc = "save_failed"
  /\ LET doc == [task[t].doc EXCEPT !.status = "failed", !.logs = task[t].err]
     IN /\ store' = SaveDoc(store, task[t].dep, doc,
                            {"status", "logs"} \cup task[t].dirty)
        /\ task' = [task EXCEPT ![t].doc = doc, ![t].pc = "post_fail_return",
                                ![t].trace = Log(t, SaveE("failed"))]
  /\ UNCHANGED <<nextId, containers, images, workspace, terminated>>

\* lines 47-57: emit 'failed', res.status(500).json, return
PostFailReturn(t) ==
  /\ task[t].pc = "post_fail_return"
  /\ task' = [task EXCEPT ![t].pc = "done", ![t].outcome = "failed",
       ![t].trace = Log(t, EmitE(task[t].user, task[t].dep, "failed", task[t].err))]
  /\ UNCHANGED <<store, nextId, containers, images, workspace, terminated>>

\* ------------------------------------------------- the store rejects a save
\* (variant: the saves of the pipeline are outside its try block, a rejected
\* save ends the request at once)
StartSaveFails_Uncaught(t) ==
  /\ task[t].pc \in {"save_cloning", "save_building", "save_starting",
                     "save_running"}
  /\ LET status == CASE task[t].pc = "save_cloning" -> "cloning"
                     [] task[t].pc = "save_building" -> "building"
                     [] task[t].pc = "save_starting" -> "starting"
                     [] task[t].pc = "save_running" -> "running"
     IN task' = [task EXCEPT ![t].pc = "done", ![t].outcome = "thrown",
                             ![t].err = "save failed",
                             ![t].trace = Log(t, SaveFailE(status))]
  /\ UNCHANGED <<store, nextId, containers, images, workspace, terminated>>

\* lines 246-248, 268-270, 288-290, 306-310: the fields are assigned and
\* await deployment.save() rejects; line 313: the catch takes the error, the
\* assigned paths stay modified in the document
StartSaveFails(t) ==
  /\ task[t].pc \in {"save_cloning", "save_building", "save_starting",
                     "save_running"}
  /\ LET doc ==
           CASE task[t].pc = "save_cloning" ->
                  [task[t].doc EXCEPT !.status = "cloning",
                                      !.logs = "Cloning repository..."]
             [] task[t].pc = "save_building" ->
                  [task[t].doc EXCEPT !.status = "building",
                                      !.logs = "Building Docker image..."]
             [] task[t].pc = "save_starting" ->
                  [task[t].doc EXCEPT !.status = "starting",
                                      !.logs = "Starting container..."]
             [] task[t].pc = "save_running" ->
                  [task[t].doc EXCEPT !.containerId = task[t].cref,
                                      !.status = "running",
                                      !.logs = "Container running successfully",
                                      !.url = UrlOf(task[t].cref)]
         emitted == IF task[t].pc = "save_cloning"
                      THEN <<EmitE(task[t].user, task[t].dep, "initializing", "")>>
                      ELSE << >>
     IN task' = [task EXCEPT
                   ![t].doc = doc, ![t].pc = "cleanup_list",
                   ![t].err = "save failed",
                   ![t].dirty = IF task[t].pc = "save_running"
                                  THEN {"containerId", "url"} ELSE {},
                   ![t].trace = task[t].trace \o emitted
                                  \o <<SaveFailE(doc.status)>>]
  /\ UNCHANGED <<store, nextId, containers, images, workspace, terminated>>

\* lines 43-45: await deployment.save() rejects inside the route's catch; the
\* error leaves the handler (asyncHandler hands it to the error middleware)
\* and nothing is emitted
RouteSaveFails(t) ==
  /\ task[t].pc = "save_failed"
  /\ task' = [task EXCEPT ![t].pc = "done", ![t].outcome = "thrown",
                          ![t].doc = [task[t].doc EXCEPT !.status = "failed",
                                                         !.logs = task[t].err],
                          ![t].err = "save failed",
                          ![t].trace = Log(t, SaveFailE("failed"))]
  /\ UNCHANGED <<store, nextId, containers, images, workspace, terminated>>

\* ------------------------------------ POST /api/deployments/:id/restart
\* (variant: a Restart waits while another request works on the deployment)
RestartFind_Locked(t, u, d) ==
  /\ Free(t)
  /\ \A o \in Tasks : task[o].dep = d => task[o].pc \in {"idle", "done"}
  /\ IF Found(store, d, u)
       THEN task' = [task EXCEPT ![t] =
              [IdleTask EXCEPT !.kind = "restart", !.pc = "save_restarting",
                               !.user = u, !.dep = d, !.doc = store[d]]]
       ELSE task' = [task EXCEPT ![t] =
              [IdleTask EXCEPT !.kind = "restart", !.pc = "done", !.user = u,
                               !.dep = d, !.err = "Deployment not found",
                               !.outcome = "thrown"]]
  /\ UNCHANGED <<store, nextId, containers, images, workspace, terminated>>

\* lines 140-148: await Deployment.findOne; 404 when there is none
RestartFind(t, u, d) ==
  /\ Free(t)
  /\ IF Found(store, d, u)
       THEN task' = [task EXCEPT ![t] =
              [IdleTask EXCEPT !.kind = "restart", !.pc = "save_restarting",
                               !.user = u, !.dep = d, !.doc = store[d]]]
       ELSE task' = [task EXCEPT ![t] =
              [IdleTask EXCEPT !.kind = "restart", !.pc = "done", !.user = u,
                               !.dep = d, !.err = "Deployment not found",
                               !.outcome = "thrown"]]
  /\ UNCHANGED <<store, nextId, containers, images, workspace, terminated>>

\* lines 150-151: status = 'restarting', save
RestartSaveRestarting(t) ==
  /\ task[t].pc = "save_restarting"
  /\ LET doc == [task[t].doc EXCEPT !.status = "restarting"]
     IN /\ store' = SaveDoc(store, task[t].dep, doc, {"status"})
        /\ task' = [task EXCEPT ![t].doc = doc, ![t].pc = "restart",
                                ![t].trace = Log(t, SaveE("restarting"))]
  /\ UNCHANGED <<nextId, containers, images, workspace, terminated>>

\* (variant: restartContainer without its containerId check)
RestartCall_NoGuard(t, ok) ==
  /\ task[t].pc = "restart"
  /\ LET tr == Log(t, EmitE(task[t].user, task[t].dep, "restarting", ""))
         res == RestartRes(containers, task[t].doc.containerId, ok)
     IN IF res = "ok"
          THEN /\ containers' = DoRun(containers, task[t].doc.containerId)
               /\ task' = [task EXCEPT ![t].pc = "restart_save_running",
                      ![t].trace = Append(tr, CallE("restart", res))]
          ELSE /\ containers' = containers
               /\ task' = [task EXCEPT ![t].pc = "restart_save_failed",
                      ![t].err = "restart failed",
                      ![t].trace = Append(tr, CallE("restart", res))]
  /\ UNCHANGED <<store, nextId, images, workspace, terminated>>

\* lines 154-157: emit 'restarting'; lines 341-347: restartContainer up to
\* container.restart(), or its throw when there is no containerId
RestartCall(t, ok) ==
  /\ task[t].pc = "restart"
  /\ LET tr == Log(t, EmitE(task[t].user, task[t].dep, "restarting", ""))
         res == RestartRes(containers, task[t].doc.containerId, ok)
         good == res = "ok"
     IN IF task[t].doc.containerId = NoRef
          THEN /\ containers' = containers
               /\ task' = [task EXCEPT ![t].pc = "restart_route_failed",
                                       ![t].err = "Container ID not found",
                                       ![t].trace = tr]
          ELSE IF good
            THEN /\ containers' = DoRun(containers, task[t].doc.containerId)
                 /\ task' = [task EXCEPT ![t].pc = "restart_save_running",
                        ![t].trace = Append(tr, CallE("restart", res))]
            ELSE /\ containers' = containers
                 /\ task' = [task EXCEPT ![t].pc = "restart_save_failed",
                        ![t].err = "restart failed",
                        ![t].trace = Append(tr, CallE("restart", res))]
  /\ UNCHANGED <<store, nextId, images, workspace, terminated>>

\* (variant: 'running' is assigned after the restart but never saved)
RestartSaveRunning_NotSaved(t) ==
  /\ task[t].pc = "restart_save_running"
  /\ task' = [task EXCEPT ![t].doc.status = "running",
                          ![t].doc.logs = "Container restarted successfully",
                          ![t].pc = "restart_return"]
  /\ UNCHANGED <<store, nextId, containers, images, workspace, terminated>>

\* lines 349-351: status = 'running', logs, save
RestartSaveRunning(t) ==
  /\ task[t].pc = "restart_save_running"
  /\ LET doc == [task[t].doc EXCEPT !.status = "running",
                                    !.logs = "Container restarted successfully"]
     IN /\ store' = SaveDoc(store, task[t].dep, doc, {"status", "logs"})
        /\ task' = [task EXCEPT ![t].doc = doc, ![t].pc = "restart_return",
                                ![t].trace = Log(t, SaveE("running"))]
  /\ UNCHANGED <<nextId, containers, images, workspace, terminated>>

\* lines 355-357: restartContainer's catch: status = 'failed', logs, save
RestartSaveFailed(t) ==
  /\ task[t].pc = "restart_save_failed"
  /\ LET doc == [task[t].doc EXCEPT !.status = "failed",
                                    !.logs = "Restart failed: restart failed"]
     IN /\ store' = SaveDoc(store, task[t].dep, doc, {"status", "logs"})
        /\ task' = [task EXCEPT ![t].doc = doc, ![t].pc = "restart_route_failed",
                                ![t].trace = Log(t, SaveE("failed"))]
  /\ UNCHANGED <<nextId, containers, images, workspace, terminated>>

\* lines 161-165: the route's catch: status = 'failed', logs, save
RestartRouteSaveFailed(t) ==
  /\ task[t].pc = "restart_route_failed"
  /\ LET doc == [task[t].doc EXCEPT !.status = "failed", !.logs = task[t].err]
     IN /\ store' = SaveDoc(store, task[t].dep, doc, {"status", "logs"})
        /\ task' = [task EXCEPT ![t].doc = doc, ![t].pc = "restart_fail_return",
                                ![t].trace = Log(t, SaveE("failed"))]
  /\ UNCHANGED <<nextId, containers, images, workspace, terminated>>

\* lines 167-177: emit 'failed', res.status(500).json, return
RestartFailReturn(t) ==
  /\ task[t].pc = "restart_fail_return"
  /\ task' = [task EXCEPT ![t].pc = "done", ![t].outcome = "failed",
       ![t].trace = Log(t, EmitE(task[t].user, task[t].dep, "failed", task[t].err))]
  /\ UNCHANGED <<store, nextId, containers, images, workspace, terminated>>

\* lines 180-183: res.status(200).json
RestartReturn(t) ==
  /\ task[t].pc = "restart_return"
  /\ task' = [task EXCEPT ![t].pc = "done", ![t].outcome = "ok"]
  /\ UNCHANGED <<store, nextId, containers, images, workspace, terminated>>

\* --------------------------------------------- GET /api/deployments/:id
\* lines 82-96: await Deployment.findOne; 404 when there is none, else 200
\* with the document
GetFind(t, u, d) ==
  /\ Free(t)
  /\ IF Found(store, d, u)
       THEN task' = [task EXCEPT ![t] =
              [IdleTask EXCEPT !.kind = "get", !.pc = "done", !.user = u,
                               !.dep = d, !.doc = store[d], !.outcome = "ok"]]
       ELSE task' = [task EXCEPT ![t] =
              [IdleTask EXCEPT !.kind = "get", !.pc = "done", !.user = u,
                               !.dep = d, !.err = "Deployment not found",
                               !.outcome = "thrown"]]
  /\ UNCHANGED <<store, nextId, containers, images, workspace, terminated>>

\* --------------------------------------------- PUT /api/deployments/:id
\* lines 103-111: await Deployment.findOne; 404 when there is none
UpdateFind(t, u, d, body) ==
  /\ Free(t)
  /\ IF Found(store, d, u)
       THEN task' = [task EXCEPT ![t] =
              [IdleTask EXCEPT !.kind = "update", !.pc = "update_save",
                               !.user = u, !.dep = d, !.doc = store[d],
                               !.body = body]]
       ELSE task' = [task EXCEPT ![t] =
              [IdleTask EXCEPT !.kind = "update", !.pc = "done", !.user = u,
                               !.dep = d, !.err = "Deployment not found",
                               !.outcome = "thrown"]]
  /\ UNCHANGED <<store, nextId, containers, images, workspace, terminated>>

\* the fields a PUT may change
Updatable == {"envVars", "buildCommand", "startCommand", "name"}

\* (variant: every field of the body is assigned, Object.assign(deployment, req.body))
UpdateSave_AssignsBody(t) ==
  /\ task[t].pc = "update_save"
  /\ LET given == {f \in DOMAIN task[t].body : task[t].body[f] # ""}
         doc == [f \in DOMAIN task[t].doc |->
                   IF f \in given THEN task[t].body[f] ELSE task[t].doc[f]]
     IN /\ store' = SaveDoc(store, task[t].dep, doc, given)
        /\ task' = [task EXCEPT ![t].doc = doc, ![t].pc = "update_return",
                                ![t].trace = Log(t, SaveE(doc.status))]
  /\ UNCHANGED <<nextId, containers, images, workspace, terminated>>

\* lines 114-121: the fields present in the body are assigned, then save
UpdateSave(t) ==
  /\ task[t].pc = "update_save"
  /\ LET given == {f \in Updatable : task[t].body[f] # ""}
         doc == [f \in DOMAIN task[t].doc |->
                   IF f \in given THEN task[t].body[f] ELSE task[t].doc[f]]
     IN /\ store' = SaveDoc(store, task[t].dep, doc, given)
        /\ task' = [task EXCEPT ![t].doc = doc, ![t].pc = "update_return",
                                ![t].trace = Log(t, SaveE(doc.status))]
  /\ UNCHANGED <<nextId, containers, images, workspace, terminated>>

\* lines 124-133: emit 'deployment_update' with deployment.status, 200
UpdateReturn(t) ==
  /\ task[t].pc = "update_return"
  /\ task' = [task EXCEPT ![t].pc = "done", ![t].outcome = "ok",
       ![t].trace = Log(t, EmitE(task[t].user, task[t].dep,
                                 task[t].doc.status, ""))]
  /\ UNCHANGED <<store, nextId, containers, images, workspace, terminated>>

\* ------------------------------------------- DELETE /api/deployments/:id
\* lines 190-198: await Deployment.findOne; 404 when there is none.
\* lines 365-367: stopContainer returns at once when there is no containerId
DeleteFind(t, u, d) ==
  /\ Free(t)
  /\ IF Found(store, d, u)
       THEN task' = [task EXCEPT ![t] =
              [IdleTask EXCEPT !.kind = "delete", !.user = u, !.dep = d,
                 !.doc = store[d], !.second = (d \in terminated),
                 !.pc = IF store[d].containerId = NoRef
                          THEN "delete_remove" ELSE "stop_stop",
                 !.stop = IF store[d].containerId = NoRef
                            THEN "returned" ELSE "none"]]
       ELSE task' = [task EXCEPT ![t] =
              [IdleTask EXCEPT !.kind = "delete", !.pc = "done", !.user = u,
                 !.dep = d, !.second = (d \in terminated),
                 !.err = "Deployment not found", !.outcome = "thrown"]]
  /\ UNCHANGED <<store, nextId, containers, images, workspace, terminated>>

\* line 371: container.stop(); lines 387-389: log and rethrow
StopStop(t, ok) ==
  /\ task[t].pc = "stop_stop"
  /\ LET res == StopRes(containers, task[t].doc.containerId, ok)
         good == res = "ok"
     IN IF good
          THEN /\ containers' = DoStop(containers, task[t].doc.containerId)
               /\ task' = [task EXCEPT ![t].pc = "stop_remove",
                                       ![t].trace = Log(t, CallE("stop", res))]
          ELSE /\ containers' = containers
               /\ task' = [task EXCEPT ![t].pc = "delete_remove",
                                       ![t].stop = "raised",
                                       ![t].trace = Log(t, CallE("stop", res))]
  /\ UNCHANGED <<store, nextId, images, workspace, terminated>>

\* line 372: container.remove()
StopRemove(t, ok) ==
  /\ task[t].pc = "stop_remove"
  /\ LET res == RemoveRes(containers, task[t].doc.containerId, ok)
         good == res = "ok"
     IN IF good
          THEN /\ containers' = DoRemove(containers, task[t].doc.containerId)
               /\ task' = [task EXCEPT ![t].pc = "stop_images",
                                       ![t].trace = Log(t, CallE("remove", res))]
          ELSE /\ containers' = containers
               /\ task' = [task EXCEPT ![t].pc = "delete_remove",
                                       ![t].stop = "raised",
                                       ![t].trace = Log(t, CallE("remove", res))]
  /\ UNCHANGED <<store, nextId, images, workspace, terminated>>

\* lines 375-376: docker.listImages() and find by tag
StopListImages(t, ok) ==
  /\ task[t].pc = "stop_images"
  /\ IF ~ok
       THEN task' = [task EXCEPT ![t].pc = "delete_remove", ![t].stop = "raised",
                                ![t].trace = Log(t, CallE("listImages", "fault"))]
       ELSE IF ImageTag(task[t].dep) \in images
         THEN task' = [task EXCEPT ![t].pc = "stop_rmi",
                                  ![t].trace = Log(t, CallE("listImages", "ok"))]
         ELSE task' = [task EXCEPT ![t].pc = "delete_remove",
                                  ![t].stop = "rmdir",
                                  ![t].trace = Log(t, CallE("listImages", "ok"))]
  /\ UNCHANGED <<store, nextId, containers, images, workspace, terminated>>

\* (variant: a failed image removal does not make stopContainer raise)
StopRemoveImage_IgnoresError(t, ok) ==
  /\ task[t].pc = "stop_rmi"
  /\ LET res == RemoveImageRes(containers, images, ImageTag(task[t].dep), ok)
     IN /\ images' = IF res = "ok" THEN images \ {ImageTag(task[t].dep)} ELSE images
        /\ task' = [task EXCEPT ![t].pc = "delete_remove",
                                ![t].stop = "rmdir",
                                ![t].trace = Log(t, CallE("removeImage", res))]
  /\ UNCHANGED <<store, nextId, containers, workspace, terminated>>

\* line 379: docker.getImage(imageInfo.Id).remove()
StopRemoveImage(t, ok) ==
  /\ task[t].pc = "stop_rmi"
  /\ LET res == RemoveImageRes(containers, images, ImageTag(task[t].dep), ok)
         good == res = "ok"
     IN /\ images' = IF good THEN images \ {ImageTag(task[t].dep)} ELSE images
        /\ task' = [task EXCEPT ![t].pc = "delete_remove",
                                ![t].stop = IF good THEN "rmdir" ELSE "raised",
                                ![t].trace = Log(t, CallE("removeImage", res))]
  /\ UNCHANGED <<store, nextId, containers, workspace, terminated>>

\* lines 383-386: on stopContainer's normal path, fs.rmSync(repoDir);
\* lines 202-206: a raised error is logged; await deployment.remove()
DeleteRemove(t) ==
  /\ task[t].pc = "delete_remove"
  /\ workspace' = IF task[t].stop = "rmdir"
                    THEN workspace \ {task[t].dep} ELSE workspace
  /\ store' = RemoveDoc(store, task[t].dep)
  /\ task' = [task EXCEPT ![t].pc = "delete_return",
                          ![t].stop = IF task[t].stop = "rmdir"
                                        THEN "returned" ELSE task[t].stop,
                          ![t].trace = Log(t, CallE("removeDoc", "ok"))]
  /\ UNCHANGED <<nextId, containers, images, terminated>>

\* lines 209-216: emit 'deployment_removed', res.status(200).json
DeleteReturn(t) ==
  /\ task[t].pc = "delete_return"
  /\ task' = [task EXCEPT ![t].pc = "done", ![t].outcome = "ok",
                          ![t].trace = Log(t, RemovedE(task[t].user, task[t].dep))]
  /\ terminated' = terminated \cup {task[t].dep}
  /\ UNCHANGED <<store, nextId, containers, images, workspace>>

\* ------------------------------------------------------------ the rest
\* the response was sent: the handler is over
Retire(t) ==
  /\ task[t].pc = "done"
  /\ task' = [task EXCEPT ![t] = IdleTask]
  /\ UNCHANGED <<store, nextId, containers, images, workspace, terminated>>

\* somebody removes a container behind the application's back (docker rm -f)
OutOfBandRemove ==
  /\ \E c \in containers : containers' = containers \ {c}
  /\ UNCHANGED <<store, nextId, images, workspace, task, terminated>>

Step(t) ==
  \/ \E u \in Users, repoUrl \in RepoUrls : PostCreate(t, u, repoUrl)
  \/ StartSaveCloning(t)
  \/ \E ok \in BOOLEAN : StartClone(t, ok)
  \/ StartSaveBuilding(t)
  \/ \E ok \in BOOLEAN : StartBuild(t, ok)
  \/ StartSaveStarting(t)
  \/ \E ok \in BOOLEAN : StartCreate(t, ok)
  \/ \E ok \in BOOLEAN : StartStart(t, ok)
  \/ StartSaveRunning(t)
  \/ PostReturn(t)
  \/ \E ok \in BOOLEAN : CleanupList(t, ok)
  \/ \E ok \in BOOLEAN : CleanupStop(t, ok)
  \/ \E ok \in BOOLEAN : CleanupRemove(t, ok)
  \/ \E ok \in BOOLEAN : CleanupListImages(t, ok)
  \/ \E ok \in BOOLEAN : CleanupRemoveImage(t, ok)
  \/ PostSaveFailed(t)
  \/ PostFailReturn(t)
  \/ \E u \in Users, d \in Ids : RestartFind(t, u, d)
  \/ RestartSaveRestarting(t)
  \/ \E ok \in BOOLEAN : RestartCall(t, ok)
  \/ RestartSaveRunning(t)
  \/ RestartSaveFailed(t)
  \/ RestartRouteSaveFailed(t)
  \/ RestartFailReturn(t)
  \/ RestartReturn(t)
  \/ \E u \in Users, d \in Ids : GetFind(t, u, d)
  \/ \E u \in Users, d \in Ids, body \in UpdateBodies : UpdateFind(t, u, d, body)
  \/ UpdateSave(t)
  \/ UpdateReturn(t)
  \/ \E u \in Users, d \in Ids : DeleteFind(t, u, d)
  \/ \E ok \in BOOLEAN : StopStop(t, ok)
  \/ \E ok \in BOOLEAN : StopRemove(t, ok)
  \/ \E ok \in BOOLEAN : StopListImages(t, ok)
  \/ \E ok \in BOOLEAN : StopRemoveImage(t, ok)
  \/ DeleteRemove(t)
  \/ DeleteReturn(t)
  \/ Retire(t)

\* one request at a time: a handler runs to its response before the next
\* request is taken
Alone(t) == \A o \in Tasks \ {t} : task[o].pc = "idle"

NextSeq ==
  \/ \E t \in Tasks : Alone(t) /\ Step(t)
  \/ OutOfBandRemove

Spec == Init /\ [][NextSeq]_vars

\* requests interleave at every await
Next ==
  \/ \E t \in Tasks : Step(t)
  \/ OutOfBandRemove

SpecConc == Init /\ [][Next]_vars

\* Valid Start requests of one user, and that owner's Restart and Terminate
\* requests on the deployments in the store, interleaving at every await, with
\* a git and
\* a daemon that never fail on their own (the daemon still refuses what its
\* state does not allow)
StepRace(t) ==
  \/ PostCreate(t, "u1", <<"h", "G", "/", "a", "/", "b">>)
  \/ StartSaveCloning(t)
  \/ StartClone(t, TRUE)
  \/ StartSaveBuilding(t)
  \/ StartBuild(t, TRUE)
  \/ StartSaveStarting(t)
  \/ StartCreate(t, TRUE)
  \/ StartStart(t, TRUE)
  \/ StartSaveRunning(t)
  \/ PostReturn(t)
  \/ \E d \in DOMAIN store : RestartFind(t, store[d].user, d)
  \/ RestartSaveRestarting(t)
  \/ RestartCall(t, TRUE)
  \/ RestartSaveRunning(t)
  \/ RestartSaveFailed(t)
  \/ RestartRouteSaveFailed(t)
  \/ RestartFailReturn(t)
  \/ RestartReturn(t)
  \/ \E d \in DOMAIN store : DeleteFind(t, store[d].user, d)
  \/ StopStop(t, TRUE)
  \/ StopRemove(t, TRUE)
  \/ StopListImages(t, TRUE)
  \/ StopRemoveImage(t, TRUE)
  \/ DeleteRemove(t)
  \/ DeleteReturn(t)
  \/ Retire(t)

NextRace == \E t \in Tasks : StepRace(t)

SpecRace == Init /\ [][NextRace]_vars

\* Start requests of one user, served one at a time, in which every call to
\* git, to the runtime and to the store may fail
StepLive(t) ==
  \/ \E repoUrl \in RepoUrls : PostCreate(t, "u1", repoUrl)
  \/ StartSaveCloning(t)
  \/ \E ok \in BOOLEAN : StartClone(t, ok)
  \/ StartSaveBuilding(t)
  \/ \E ok \in BOOLEAN : StartBuild(t, ok)
  \/ StartSaveStarting(t)
  \/ \E ok \in BOOLEAN : StartCreate(t, ok)
  \/ \E ok \in BOOLEAN : StartStart(t, ok)
  \/ StartSaveRunning(t)
  \/ PostReturn(t)
  \/ \E ok \in BOOLEAN : CleanupList(t, ok)
  \/ \E ok \in BOOLEAN : CleanupStop(t, ok)
  \/ \E ok \in BOOLEAN : CleanupRemove(t, ok)
  \/ \E ok \in BOOLEAN : CleanupListImages(t, ok)
  \/ \E ok \in BOOLEAN : CleanupRemoveImage(t, ok)
  \/ PostSaveFailed(t)
  \/ PostFailReturn(t)
  \/ StartSaveFails(t)
  \/ RouteSaveFails(t)
  \/ Retire(t)

NextLive == \E t \in Tasks : Alone(t) /\ StepLive(t)

\* a handler that waits for a call is resumed: the call returns or fails,
\* and the event loop runs the continuation
Resume(t) == task[t].pc \notin {"idle", "done"} /\ Alone(t) /\ StepLive(t)

SpecLive == Init /\ [][NextLive]_vars /\ \A t \in Tasks : WF_vars(Resume(t))

\* =================================================================
\* Properties
\* =================================================================
Saves(tr) == SelectSeq(tr, LAMBDA e : e.op = "save")
StatusesSaved(tr) == [i \in 1..Len(Saves(tr)) |-> Saves(tr)[i].what]

\* the saves and the external calls of a handler, in the order it made them
SavesAndCalls(tr) ==
  LET sc == SelectSeq(tr, LAMBDA e : e.op \in {"save", "call"})
  IN [i \in 1..Len(sc) |-> <<sc[i].op, sc[i].what>>]

Called(tr, name) == \E i \in 1..Len(tr) : tr[i].op = "call" /\ tr[i].what = name
CallFailed(tr, name) ==
  \E i \in 1..Len(tr) : tr[i].op = "call" /\ tr[i].what = name /\ tr[i].res # "ok"
CallOk(tr, name) ==
  \E i \in 1..Len(tr) : tr[i].op = "call" /\ tr[i].what = name /\ tr[i].res = "ok"

StoredStatus(d) == IF d \in DOMAIN store THEN store[d].status ELSE "removed"

\* runtime resources of deployment d
ContainersOf(d) == {c \in containers : c.name[2] = d}
HasContainer(d, u) == ContainersNamed(containers, ContainerName(d, u)) # {}
HasImage(d) == ImageTag(d) \in images

StartDone(t) == task[t].kind = "start" /\ task[t].pc = "done" /\ task[t].dep # 0

\* C1: a Start in which clone, build, create and start all succeed writes
\* exactly initializing, cloning, building, starting, running to the store,
\* in that order, and each value is in the store before the next stage begins
C1_StatusSequence ==
  \A t \in Tasks :
    /\ (task[t].kind = "start" /\ task[t].pc = "clone")
          => StoredStatus(task[t].dep) = "cloning"
    /\ (task[t].kind = "start" /\ task[t].pc = "build")
          => StoredStatus(task[t].dep) = "building"
    /\ (task[t].kind = "start" /\ task[t].pc \in {"create", "start"})
          => StoredStatus(task[t].dep) = "starting"
    /\ (StartDone(t) /\ task[t].outcome = "ok")
          => /\ StatusesSaved(task[t].trace) =
                  <<"initializing", "cloning", "building", "starting", "running">>
             /\ SavesAndCalls(task[t].trace) =
                  << <<"save", "initializing">>, <<"save", "cloning">>,
                     <<"call", "clone">>, <<"save", "building">>,
                     <<"call", "buildImage">>, <<"save", "starting">>,
                     <<"call", "createContainer">>, <<"call", "start">>,
                     <<"save", "running">> >>
             /\ StoredStatus(task[t].dep) = "running"

C1_Witness ==
  \E t \in Tasks : StartDone(t) /\ task[t].outcome = "ok"
                    /\ CallOk(task[t].trace, "start")

\* C2 (as stated): every status a Start or Restart persists (cloning, building,
\* starting, running, restarting, failed) is followed, before the next status
\* is persisted and before the handler ends, by a deployment_update event on
\* the owner's channel that carries the deployment id and that status
C2_EventAfterEverySave ==
  \A t \in Tasks :
    LET tr == task[t].trace IN
    \A i \in 1..Len(tr) :
      ( /\ task[t].kind \in {"start", "restart"}
        /\ tr[i].op = "save"
        /\ tr[i].what \in {"cloning", "building", "starting", "running",
                            "restarting", "failed"}
        /\ (task[t].pc = "done" \/ \E j \in (i+1)..Len(tr) : tr[j].op = "save") )
      => \E k \in (i+1)..Len(tr) :
            /\ tr[k].op = "emit" /\ tr[k].what = tr[i].what
            /\ tr[k].dep = task[t].dep /\ tr[k].chan = task[t].doc.user
            /\ \A j \in (i+1)..(k-1) : tr[j].op # "save"

\* C3: when the clone of a Start fails, buildImage, createContainer and
\* container start are never invoked by that Start, and when it returns the
\* stored status is failed, and no container named for the deployment and its
\* owner and no image tagged for the deployment exists
C3_CloneFailure ==
  \A t \in Tasks :
    (task[t].kind = "start" /\ CallFailed(task[t].trace, "clone"))
      => /\ ~Called(task[t].trace, "buildImage")
         /\ ~Called(task[t].trace, "createContainer")
         /\ ~Called(task[t].trace, "start")
         /\ task[t].pc = "done"
              => /\ task[t].outcome = "failed"
                 /\ StoredStatus(task[t].dep) = "failed"
                 /\ ~HasContainer(task[t].dep, task[t].user)
                 /\ ~HasImage(task[t].dep)

C3_Witness ==
  \E t \in Tasks : StartDone(t) /\ CallFailed(task[t].trace, "clone")

\* C4: when the image build of a Start fails after a successful clone created
\* the workspace, then when Start returns the workspace directory of the
\* deployment still exists, and no container named for it and no image tagged
\* for it exists
C4_BuildFailureKeepsWorkspace ==
  \A t \in Tasks :
    (StartDone(t) /\ CallOk(task[t].trace, "clone")
                  /\ CallFailed(task[t].trace, "buildImage"))
      => /\ task[t].dep \in workspace
         /\ ~HasContainer(task[t].dep, task[t].user)
         /\ ~HasImage(task[t].dep)

C4_Witness ==
  \E t \in Tasks : /\ StartDone(t) /\ CallOk(task[t].trace, "clone")
                    /\ CallFailed(task[t].trace, "buildImage")
                    /\ task[t].dep \in workspace

\* the calls of the clean-up a failed Start made (everything after the call
\* that failed the pipeline), none of which failed on its own
NoFaultAfter(tr, name) ==
  \A i \in 1..Len(tr) : \A j \in (i+1)..Len(tr) :
    (tr[i].op = "call" /\ tr[i].what = name /\ tr[j].op = "call")
      => tr[j].res # "fault"

\* C5 (as stated): when createContainer succeeded and container start failed
\* (the container exists and is not running), Cleanup removes the container
\* named for the deployment and its owner and the image tagged for the
\* deployment: neither exists when Start returns.  Stated for the runs in
\* which no call of the clean-up fails on its own.
C5_CleanupAfterStartFailure ==
  \A t \in Tasks :
    ( /\ StartDone(t)
      /\ CallOk(task[t].trace, "createContainer")
      /\ CallFailed(task[t].trace, "start")
      /\ NoFaultAfter(task[t].trace, "start") )
    => /\ ~HasContainer(task[t].dep, task[t].user)
       /\ ~HasImage(task[t].dep)

\* C6 (as stated): stopContainer on a deployment whose containerId is set and
\* whose container was already removed from the runtime (the daemon answers
\* 404 to stop) completes without raising
C6_StopToleratesAbsentContainer ==
  \A t \in Tasks :
    ( /\ task[t].kind = "delete"
      /\ task[t].doc.containerId # NoRef
      /\ Len(task[t].trace) >= 1
      /\ task[t].trace[1] = CallE("stop", "404") )
    => task[t].stop # "raised"

\* C7: Restart of an existing deployment that has no containerId fails without
\* any restart call to the runtime, and the stored status is failed when
\* Restart returns
C7_RestartWithoutContainer ==
  \A t \in Tasks :
    ( /\ task[t].kind = "restart"
      /\ task[t].doc.user # ""
      /\ task[t].doc.containerId = NoRef )
    => /\ ~Called(task[t].trace, "restart")
       /\ task[t].pc = "done"
            => /\ task[t].outcome = "failed"
               /\ task[t].err = "Container ID not found"
               /\ StoredStatus(task[t].dep) = "failed"

C7_Witness ==
  \E t \in Tasks :
    /\ task[t].kind = "restart" /\ task[t].pc = "done"
    /\ task[t].doc.user # "" /\ task[t].doc.containerId = NoRef
    /\ task[t].outcome = "failed"

\* C8 (as stated): a Terminate that starts after an earlier Terminate of the
\* same deployment id has finished does not raise
C8_TerminateIdempotent ==
  \A t \in Tasks :
    (task[t].kind = "delete" /\ task[t].second /\ task[t].pc = "done")
      => task[t].outcome # "thrown"

\* C9 (as stated): in every state in which the record of a deployment has
\* been removed, no container and no image created for it exists
C9_NoResourcesAfterRemoval ==
  \A d \in 1..(nextId - 1) :
    d \notin DOMAIN store => (ContainersOf(d) = {} /\ ~HasImage(d))

\* C9 (amended): a record leaves the store only in the remove step of a
\* Terminate of that deployment, after stopContainer has returned or raised;
\* and when stopContainer ran to its end without raising on a deployment that
\* had a containerId, no container and no image of the deployment exists at
\* that moment
C9_RemovedOnlyByTerminate ==
  [][ \A d \in DOMAIN store :
        d \notin DOMAIN store' =>
          \E t \in Tasks :
            /\ task[t].kind = "delete" /\ task[t].dep = d
            /\ task[t].pc = "delete_remove" /\ task'[t].pc = "delete_return"
            /\ task[t].stop \in {"returned", "raised", "rmdir"}
            /\ task[t].stop = "rmdir"
                 => (ContainersOf(d) = {} /\ ~HasImage(d)
                     /\ task[t].doc.containerId # NoRef) ]_vars

C9_Witness ==
  \E t \in Tasks :
    /\ task[t].kind = "delete" /\ task[t].pc = "delete_return"
    /\ task[t].doc.containerId # NoRef /\ task[t].stop = "returned"
    /\ task[t].dep \notin DOMAIN store

\* C10 (as stated): when Terminate of an existing deployment returns, the
\* record is removed and the workspace directory no longer exists, whatever
\* Stop did (succeeded, failed, or there was no containerId)
C10_TerminateRemovesWorkspace ==
  \A t \in Tasks :
    (task[t].kind = "delete" /\ task[t].pc = "done" /\ task[t].outcome = "ok")
      => /\ task[t].dep \notin DOMAIN store
         /\ task[t].dep \notin workspace

\* C11: in every state of the store, a deployment whose stored status is
\* running has a containerId and a url
C11_RunningHasContainerAndUrl ==
  \A d \in DOMAIN store :
    store[d].status = "running"
      => (store[d].containerId # NoRef /\ store[d].url # NoUrl)

C11_Witness ==
  \E t \in Tasks :
    /\ task[t].kind = "restart" /\ task[t].pc = "done" /\ task[t].outcome = "ok"
    /\ task[t].dep \in DOMAIN store
    /\ store[task[t].dep].status = "running"
    /\ store[task[t].dep].name = "name1"

\* C12 (as stated): failed is terminal: once the stored status of a deployment
\* is failed, no step changes it to another status, and a deployment whose
\* record was removed never has a record again
C12_FailedIsTerminal ==
  [][ /\ \A d \in DOMAIN store :
           (store[d].status = "failed" /\ d \in DOMAIN store')
             => store'[d].status = "failed"
      /\ \A d \in 1..(nextId - 1) :
           d \notin DOMAIN store => d \notin DOMAIN store' ]_vars

\* the stages of the pipeline and the calls of its clean-up
StageCalls == {"clone", "buildImage", "createContainer", "start"}
CleanupCalls == {"listContainers", "stop", "remove", "listImages", "removeImage"}

\* the message of the error with which a stage fails
StageMsg(name) ==
  CASE name = "clone" -> "clone failed"
    [] name = "buildImage" -> "build failed"
    [] name = "createContainer" -> "create failed"
    [] name = "start" -> "start failed"

IsFailedStage(e) == e.op = "call" /\ e.what \in StageCalls /\ e.res # "ok"
StageFailed(tr) == \E i \in 1..Len(tr) : IsFailedStage(tr[i])
\* position of the stage call that failed
FailedAt(tr) == CHOOSE i \in 1..Len(tr) : IsFailedStage(tr[i])

\* C13: Cleanup never raises: whatever stage of Start fails and whichever
\* clean-up calls fail, the error Start hands to its caller is the error of
\* the stage, and the caller answers with a failure
C13_CleanupNeverMasks ==
  \A t \in Tasks :
    (task[t].kind = "start" /\ StageFailed(task[t].trace))
      => /\ task[t].err = StageMsg(task[t].trace[FailedAt(task[t].trace)].what)
         /\ task[t].pc \in {"cleanup_list", "cleanup_stop", "cleanup_remove",
                             "cleanup_images", "cleanup_rmi", "save_failed",
                             "post_fail_return", "done"}
         /\ task[t].pc = "done" => task[t].outcome = "failed"

C13_Witness ==
  \E t \in Tasks :
    /\ StartDone(t) /\ StageFailed(task[t].trace)
    /\ \E i \in 1..Len(task[t].trace) :
         /\ task[t].trace[i].op = "call"
         /\ task[t].trace[i].what \in {"stop", "remove", "removeImage"}
         /\ task[t].trace[i].res # "ok"

\* C14: when a stage of Start fails, no later stage is invoked, the clean-up
\* runs, the deployment is stored with status failed and the message of the
\* failing error as logs, a deployment_update event with status failed and
\* that message is emitted on the owner's channel, and the caller gets a
\* failure
C14_StageFailurePath ==
  \A t \in Tasks :
    (task[t].kind = "start" /\ StageFailed(task[t].trace))
      => LET tr == task[t].trace
             k == FailedAt(tr)
             msg == StageMsg(tr[k].what)
         IN /\ \A j \in (k+1)..Len(tr) :
                 tr[j].op = "call" => tr[j].what \in CleanupCalls
            /\ Len(tr) > k => tr[k+1] \in {CallE("listContainers", "ok"),
                                            CallE("listContainers", "fault")}
            /\ task[t].pc = "done"
                 => /\ task[t].outcome = "failed"
                    /\ StoredStatus(task[t].dep) = "failed"
                    /\ store[task[t].dep].logs = msg
                    /\ tr[Len(tr) - 1] = SaveE("failed")
                    /\ tr[Len(tr)] = EmitE(store[task[t].dep].user, task[t].dep,
                                           "failed", msg)

C14_Witness ==
  \E t \in Tasks :
    /\ StartDone(t) /\ StageFailed(task[t].trace)
    /\ task[t].trace[FailedAt(task[t].trace)].what = "createContainer"

\* C15: a Start request whose repoUrl fails the validation (not-a-url,
\* github.com/a, github.com/a/, github.com//b) is rejected before any stage:
\* the step that takes it changes no record, no container, no image and no
\* workspace, makes no call and emits no event
C15_InvalidUrlRejected ==
  [][ \A t \in Tasks :
        ( /\ task[t].pc = "idle"
          /\ task'[t].kind = "start"
          /\ task'[t].repoUrl \in { <<"n", "o", "t">>, <<"G", "/", "a">>,
                                     <<"G", "/", "a", "/">>,
                                     <<"G", "/", "/", "b">> } )
        => /\ UNCHANGED <<store, nextId, containers, images, workspace>>
           /\ task'[t].pc = "done" /\ task'[t].outcome = "thrown"
           /\ task'[t].dep = 0 /\ task'[t].trace = << >> ]_vars

C15_Witness ==
  \E t \in Tasks :
    /\ task[t].kind = "start" /\ task[t].pc = "done"
    /\ task[t].repoUrl = <<"n", "o", "t">> /\ task[t].outcome = "thrown"
    /\ store = << >>

\* C16 (as stated, the direction from the runtime to the store): when a Start
\* has returned and no call of its clean-up failed on its own, a container
\* created for the deployment exists only if the stored containerId is set
C16_ContainerImpliesRef ==
  \A t \in Tasks :
    ( /\ StartDone(t)
      /\ task[t].dep \in DOMAIN store
      /\ NoFaultAfter(task[t].trace, "start")
      /\ ContainersOf(task[t].dep) # {} )
    => store[task[t].dep].containerId # NoRef

\* the first 12 characters of a container reference
First12(ref) == [i \in 1..12 |-> ref[i]]

\* C17 (as stated): after a successful Start the url is the first 12
\* characters of the stored containerId, a dot and the domain suffix
C17_UrlIsPrefixDotDomain ==
  \A t \in Tasks :
    (StartDone(t) /\ task[t].outcome = "ok" /\ task[t].dep \in DOMAIN store)
      => store[task[t].dep].url =
           <<First12(store[task[t].dep].containerId), ".", "deploybot.app">>

\* C17 (amended): after a successful Start the url is "http://", the first 12
\* characters of the containerId stored on the same record, a dot and the
\* domain suffix; that containerId is the id of the container the runtime
\* created under the deployment's name
C17_UrlIsSchemePrefixDotDomain ==
  \A t \in Tasks :
    (StartDone(t) /\ task[t].outcome = "ok" /\ task[t].dep \in DOMAIN store)
      => LET rec == store[task[t].dep] IN
         /\ Len(rec.containerId) >= 12
         /\ rec.url = <<"http://", First12(rec.containerId), ".", "deploybot.app">>
         /\ \A c \in ContainersNamed(containers,
                                      ContainerName(task[t].dep, rec.user)) :
              c.id = rec.containerId

C17_Witness ==
  \E t \in Tasks :
    /\ StartDone(t) /\ task[t].outcome = "ok" /\ task[t].dep \in DOMAIN store
    /\ Len(store[task[t].dep].containerId) > 12
    /\ HasContainer(task[t].dep, task[t].user)

\* C18: Restart of an existing deployment first stores restarting, then calls
\* the runtime's restart; when it returns the stored status is running if the
\* runtime restart succeeded and failed if it did not, never restarting
C18_RestartOutcome ==
  \A t \in Tasks :
    (task[t].kind = "restart" /\ task[t].doc.user # "")
      => /\ task[t].pc = "restart" => StoredStatus(task[t].dep) = "restarting"
         /\ Called(task[t].trace, "restart")
              => /\ task[t].trace[1] = SaveE("restarting")
                 /\ task[t].trace[3].what = "restart"
         /\ task[t].pc = "done"
              => IF CallOk(task[t].trace, "restart")
                   THEN /\ StoredStatus(task[t].dep) = "running"
                        /\ task[t].outcome = "ok"
                   ELSE /\ StoredStatus(task[t].dep) = "failed"
                        /\ task[t].outcome = "failed"

C18_Witness ==
  \E t \in Tasks :
    /\ task[t].kind = "restart" /\ task[t].pc = "done"
    /\ CallOk(task[t].trace, "restart")
    /\ StoredStatus(task[t].dep) = "running"

\* a Restart, a Terminate that finds the deployment and goes on with it
RestartAccepted(t, u, d) ==
  RestartFind(t, u, d) /\ task'[t].pc = "save_restarting"
DeleteAccepted(t, u, d) ==
  DeleteFind(t, u, d) /\ task'[t].pc \in {"delete_remove", "stop_stop"}

InFlight(t) == task[t].pc \notin {"idle", "done"}

\* C20: Start, Restart and Terminate on one deployment id are not mutually
\* excluded: while a Start (or a Restart, or a Terminate) is between two of
\* its steps and the record is in the store, a Restart and a Terminate of
\* the owner on the same id are taken and go on with the deployment.  (That
\* an interleaving corrupts status and containerId is C20_Witness.)
C20_NotMutuallyExcluded ==
  \A t \in Tasks, o \in Tasks :
    ( /\ InFlight(t) /\ task[t].dep \in DOMAIN store
      /\ Free(o) )
    => /\ ENABLED RestartAccepted(o, store[task[t].dep].user, task[t].dep)
       /\ ENABLED DeleteAccepted(o, store[task[t].dep].user, task[t].dep)

\* a Terminate ran between the stages of a Start: every stage of the Start
\* succeeded and it answered 201, yet the record is removed and the container
\* it started runs on
C20_Witness ==
  \E t \in Tasks :
    /\ StartDone(t) /\ task[t].outcome = "ok"
    /\ task[t].dep \notin DOMAIN store
    /\ \E c \in ContainersOf(task[t].dep) : c.running

\* handler slot t takes a request of kind k in this step
Takes(t, k) == task[t].pc = "idle" /\ task'[t].pc # "idle" /\ task'[t].kind = k

\* the request taken by slot t names a deployment in the store that belongs
\* to somebody else
ByStranger(t) ==
  /\ task'[t].dep \in DOMAIN store
  /\ store[task'[t].dep].user # task'[t].user

\* C21: a read, Update, Restart or Terminate request for a deployment of the
\* store by a user who is not its owner is answered "Deployment not found"
\* at once and changes nothing: the store, the containers, the images and
\* the workspaces are as before, no handler saves, calls or emits anything.
C21_OwnerIsolation ==
  [][\A t \in Tasks :
       ( /\ \E k \in {"get", "update", "restart", "delete"} : Takes(t, k)
         /\ ByStranger(t) )
       => /\ task'[t].pc = "done"
          /\ task'[t].outcome = "thrown"
          /\ task'[t].err = "Deployment not found"
          /\ task'[t].trace = << >>
          /\ \A o \in Tasks \ {t} : task'[o] = task[o]
          /\ UNCHANGED <<store, containers, images, workspace>>]_vars

\* a stranger's Terminate was refused while the deployment has a container,
\* an image and a workspace that a Terminate would remove
C21_Witness ==
  \E t \in Tasks :
    /\ task[t].kind = "delete" /\ task[t].pc = "done"
    /\ task[t].outcome = "thrown"
    /\ task[t].dep \in DOMAIN store
    /\ store[task[t].dep].user # task[t].user
    /\ store[task[t].dep].status = "running"
    /\ HasContainer(task[t].dep, store[task[t].dep].user) /\ HasImage(task[t].dep)
    /\ task[t].dep \in workspace

\* C22: an Update of the owner writes the fields envVars, buildCommand,
\* startCommand and name that its body gives and nothing else: status,
\* containerId, url and logs of the record, the other records, the
\* containers, the images and the workspaces stay as they are, the handler
\* makes no runtime call, and it answers 200 after one save and one
\* deployment_update event that carries the stored, unchanged status.
C22_UpdateFrame ==
  [][\A t \in Tasks :
       ( /\ task'[t] # task[t]
         /\ task[t].kind = "update" \/ Takes(t, "update") )
       => /\ UNCHANGED <<containers, images, workspace, nextId>>
          /\ DOMAIN store' = DOMAIN store
          /\ \A d \in DOMAIN store :
               \A f \in DOMAIN store[d] :
                 store'[d][f] =
                   IF /\ task[t].pc = "update_save" /\ d = task[t].dep
                      /\ f \in Updatable /\ task[t].body[f] # ""
                     THEN task[t].body[f]
                     ELSE store[d][f]
          /\ task'[t].pc = "done" /\ task'[t].outcome = "ok"
               => task'[t].trace =
                    << SaveE(store[task[t].dep].status),
                       EmitE(task[t].user, task[t].dep,
                             store[task[t].dep].status, "") >>]_vars

\* an Update whose body names build and start commands, a name and a status
\* was answered for a running deployment
C22_Witness ==
  \E t \in Tasks :
    /\ task[t].kind = "update" /\ task[t].pc = "done" /\ task[t].outcome = "ok"
    /\ task[t].body.status = "stopped"
    /\ task[t].dep \in DOMAIN store
    /\ store[task[t].dep].status = "running"
    /\ store[task[t].dep].buildCommand = "yarn"
    /\ store[task[t].dep].name = "name1"
    /\ HasContainer(task[t].dep, task[t].user)

\* the Start of deployment d that slot t serves (the request was valid: the
\* record was created)
StartOf(t, d) == task[t].kind = "start" /\ task[t].dep = d

\* the save of 'failed' in the route's catch was itself rejected
FailedSaveRejected(tr) ==
  \E i \in 1..Len(tr) : tr[i].op = "savefail" /\ tr[i].what = "failed"

\* C23 as stated: when external calls return or fail, the Start of a valid
\* request returns, and the stored status is then running or failed.
C23_StartEndsRunningOrFailed ==
  \A t \in Tasks, d \in Ids :
    StartOf(t, d) ~>
      ( /\ StartOf(t, d) /\ task[t].pc = "done"
        /\ store[d].status \in {"running", "failed"} )

\* C23, amended: when external calls return or fail, the Start of a valid
\* request returns, and the stored status is then running or failed unless
\* the store rejected the save of failed in the route's catch.
C23_StartReturns ==
  \A t \in Tasks, d \in Ids :
    StartOf(t, d) ~>
      ( /\ StartOf(t, d) /\ task[t].pc = "done"
        /\ \/ store[d].status \in {"running", "failed"}
           \/ FailedSaveRejected(task[t].trace) )

\* a Start returned after the store rejected one of the pipeline's saves: the
\* clean-up ran and failed is what the store holds
C23_Witness ==
  \E t \in Tasks :
    /\ StartDone(t) /\ task[t].outcome = "failed"
    /\ \E i \in 1..Len(task[t].trace) : task[t].trace[i].op = "savefail"
    /\ Called(task[t].trace, "listContainers")
    /\ store[task[t].dep].status = "failed"

====
